---- MODULE Spec2Model ----
(***************************************************************************)
(* easyXDM.WidgetManager (src/src/easyXDM.Widgets.js): the registry of     *)
(* widgets, the topic -> subscribers table and the message relay, as a     *)
(* state machine.  The easyXDM.Interface transport is an external          *)
(* collaborator: a channel is an object on which the manager calls         *)
(* initialize, send and destroy, and over which the widget calls the       *)
(* manager's local subscribe and publish methods.                          *)
(*                                                                         *)
(* easyXDM.Widget, the wrapper that runs inside a widget, is modelled next *)
(* to it with variables of its own: the application's callbacks, the       *)
(* remote calls the wrapper answers and the calls it forwards.             *)
(*                                                                         *)
(* The relay of a widget's publish through the manager to the subscribers  *)
(* is followed end to end with a queue per channel and direction.          *)
(***************************************************************************)
EXTENDS Integers, Sequences, FiniteSets, TLC

\* ---------------------------------------------------------------- bounds
MaxChannels == 2      \* number of easyXDM.Interface objects ever created
MaxSubscriptions == 2 \* entries of the subscriber arrays, all topics together
MaxDeclared == 1      \* longest response.subscriptions array
MaxScript == 1        \* subscribe calls the application makes in one callback
MaxAnswered == 2      \* remote calls one wrapper answers
MaxRegistered == 2    \* registerMessageHandler calls on one wrapper
MaxIssued == 3        \* publish calls the widgets issue in the relay scenario

Urls == {"a", "b"}
Topics == {"t1", "t2"}
Data == {"m1"}

\* The sender marker WidgetManager.publish passes to _publish.
ManagerSender == ""

\* The Events table of the manager.
Events == [WidgetInitialized |-> "widgetinitialized", WidgetFailed |-> "widgetfailed"]

\* Property names the host may have put in config.listeners.
ListenerNames == {Events.WidgetInitialized, Events.WidgetFailed, "event"}

\* The config.listeners objects the model is started with.
ListenerConfigs == {{Events.WidgetInitialized, Events.WidgetFailed}, ListenerNames}

NoChan == 0 - 1
NoValue == "-"

\* The functions the application may register as message handler, and the
\* value of _incomingMessageHandler before any registration.
Handlers == {"h1", "h2"}
NoHandler == "undefined"

VARIABLES
    _channelNr,    \* the counter the channel names are drawn from
    channels,      \* the Interface objects created so far, by number
    _widgets,      \* url -> channel, the initialized widgets
    _subscribers,  \* topic -> array of urls
    listeners,     \* the property names of config.listeners
    last,          \* the operation that ran last and the calls it made
    built,         \* the easyXDM.Widget constructor has run
    config,        \* the config object given to easyXDM.Widget
    _incomingMessageHandler,  \* the registered handler
    _widgetHost,   \* the wrapper's Interface to the manager
    runs,          \* how often each callback ran, how many remote calls were answered
    wlast,         \* the wrapper's operation that ran last and the calls it made
    issued,        \* the publish calls the widgets made, in the order they made them
    toManager,     \* per channel, the widget's publish calls not yet delivered
    toWidget,      \* per channel, the manager's send calls not yet delivered
    received       \* per channel, the send calls that arrived at the widget

\* The manager's variables and the wrapper's.
mvars == <<_channelNr, channels, _widgets, _subscribers, listeners, last>>
wvars == <<built, config, _incomingMessageHandler, _widgetHost, runs, wlast>>
rvars == <<issued, toManager, toWidget, received>>

vars == <<mvars, wvars, rvars>>

\* ---------------------------------------------------------------- helpers
Range(s) == {s[i] : i \in 1..Len(s)}

SeqsUpTo(S, n) == UNION {[1..k -> S] : k \in 0..n}

RECURSIVE SumLen(_, _)
SumLen(subs, topics) ==
    IF topics = {} THEN 0
    ELSE LET t == CHOOSE x \in topics : TRUE IN
         Len(subs[t]) + SumLen(subs, topics \ {t})

\* The number of entries in the subscriber arrays of a table.
Entries(subs) == SumLen(subs, DOMAIN subs)

\* The responses a widget can give to the initialize call: initialized, with
\* its subscriptions, or not initialized.
Responses ==
    [isInitialized : {TRUE}, subscriptions : SeqsUpTo(Topics, MaxDeclared)]
        \cup {[isInitialized |-> FALSE, subscriptions |-> <<>>]}

\* Channels whose Interface exists and on which destroy was never called.
Live(c) == c \in DOMAIN channels /\ channels[c].destroys = 0

\* Interface.destroy: the channel is torn down; the call is counted.
destroy(widget) == [widget EXCEPT !.phase = "destroyed", !.destroys = @ + 1]

\* The observation of one operation: what was called, and what it called.
Op(name, url, topic, data, chan) ==
    [op |-> name, url |-> url, topic |-> topic, data |-> data, chan |-> chan,
     ok |-> FALSE, threw |-> FALSE, sends |-> <<>>, events |-> <<>>,
     subscriptions |-> <<>>]

\* The observation of one operation of the wrapper: the calls it forwarded
\* over _widgetHost, the response it returned, the handler calls it made.
WOp(name, args) ==
    [op |-> name, args |-> args, calls |-> <<>>, response |-> NoValue,
     handled |-> <<>>, threw |-> FALSE]

\* ---------------------------------------------------------------- _raiseEvent
\* config.listeners && config.listeners.event: the property read is the one
\* literally named "event", whatever the event argument is.
_raiseEvent(event, arg) ==
    IF "event" \in listeners
    THEN <<[listener |-> "event", arg |-> arg]>>
    ELSE <<>>

\* ---------------------------------------------------------------- _subscribe
\* Creates the topic's array when missing, then pushes the url.
_subscribe(subs, url, topic) ==
    IF topic \in DOMAIN subs
    THEN [subs EXCEPT ![topic] = Append(@, url)]
    ELSE (topic :> <<url>>) @@ subs

\* The while (i--) loop of _initializeWidget over response.subscriptions.
RECURSIVE SubscribeAll(_, _, _, _)
SubscribeAll(subs, url, declared, i) ==
    IF i = 0 THEN subs
    ELSE SubscribeAll(_subscribe(subs, url, declared[i]), url, declared, i - 1)

\* ---------------------------------------------------------------- _publish
\* The while (i--) loop of _publish: from the last subscriber to the first,
\* send on the subscriber's widget unless it is the sender.  _widgets[widgetUrl]
\* is undefined for a url that is not a key of _widgets, and calling send on
\* it throws a TypeError that ends the loop.
RECURSIVE PublishLoop(_, _, _, _, _, _)
PublishLoop(subscribers, i, url, topic, data, acc) ==
    IF i = 0 THEN [sends |-> acc, threw |-> FALSE]
    ELSE LET widgetUrl == subscribers[i] IN
         IF widgetUrl # url
         THEN IF widgetUrl \in DOMAIN _widgets
              THEN PublishLoop(subscribers, i - 1, url, topic, data,
                       Append(acc, [chan |-> _widgets[widgetUrl],
                                    args |-> <<url, topic, data>>]))
              ELSE [sends |-> acc, threw |-> TRUE]
         ELSE PublishLoop(subscribers, i - 1, url, topic, data, acc)

_publish(url, topic, data) ==
    IF topic \in DOMAIN _subscribers
    THEN PublishLoop(_subscribers[topic], Len(_subscribers[topic]), url, topic, data, <<>>)
    ELSE [sends |-> <<>>, threw |-> FALSE]

\* ---------------------------------------------------------------- Init
Init ==
    /\ _channelNr = 0
    /\ channels = <<>>
    /\ _widgets = <<>>
    /\ _subscribers = <<>>
    /\ listeners \in ListenerConfigs
    /\ last = Op("new", NoValue, NoValue, NoValue, NoChan)
    /\ built = FALSE
    /\ config = [subscriptions |-> <<>>]
    /\ _incomingMessageHandler = NoHandler
    /\ _widgetHost = [destroyed |-> FALSE, early |-> <<>>]
    /\ runs = [initialize |-> 0, initialized |-> 0, answered |-> 0, registered |-> 0]
    /\ wlast = WOp("none", <<>>)
    /\ issued = <<>>
    /\ toManager = <<>>
    /\ toWidget = <<>>
    /\ received = <<>>

\* ---------------------------------------------------------------- addWidget
\* _setUpWidget: a new Interface named "widget" + _channelNr++ for the url.
_setUpWidget(url) ==
    /\ _channelNr < MaxChannels
    /\ channels' = [c \in 0.._channelNr |->
                      IF c = _channelNr
                      THEN [url |-> url, phase |-> "setup", destroys |-> 0]
                      ELSE channels[c]]
    /\ _channelNr' = _channelNr + 1

addWidget(url) ==
    IF url \in DOMAIN _widgets
    THEN /\ last' = [Op("addWidget", url, NoValue, NoValue, NoChan) EXCEPT !.threw = TRUE]
         /\ UNCHANGED <<_channelNr, channels, _widgets, _subscribers, listeners>>
    ELSE /\ _setUpWidget(url)
         /\ last' = [Op("addWidget", url, NoValue, NoValue, _channelNr) EXCEPT !.ok = TRUE]
         /\ UNCHANGED <<_widgets, _subscribers, listeners>>

\* ---------------------------------------------------------------- onReady
\* The Interface's onReady callback: _initializeWidget issues the initialize
\* call on the widget.
_initializeWidget(c) ==
    /\ c \in DOMAIN channels
    /\ channels[c].phase = "setup"
    /\ channels' = [channels EXCEPT ![c].phase = "awaiting"]
    /\ last' = Op("initialize", channels[c].url, NoValue, NoValue, c)
    /\ UNCHANGED <<_channelNr, _widgets, _subscribers, listeners>>

\* ---------------------------------------------------------------- response
\* A callback that stores the widget in _widgets before it looks at
\* response.isInitialized.
InitializeResponse_RegisterFirst(c, response) ==
    /\ c \in DOMAIN channels
    /\ channels[c].phase = "awaiting"
    /\ LET url == channels[c].url IN
       /\ _widgets' = (url :> c) @@ _widgets
       /\ IF response.isInitialized
          THEN LET subs == SubscribeAll(_subscribers, url, response.subscriptions,
                                        Len(response.subscriptions)) IN
               /\ Entries(subs) <= MaxSubscriptions
               /\ _subscribers' = subs
               /\ channels' = [channels EXCEPT ![c].phase = "initialized"]
               /\ last' = [Op("response", url, NoValue, NoValue, c) EXCEPT
                             !.ok = TRUE,
                             !.subscriptions = response.subscriptions,
                             !.events = _raiseEvent(Events.WidgetInitialized, [url |-> url])]
          ELSE /\ channels' = [channels EXCEPT ![c] = destroy(@)]
               /\ last' = [Op("response", url, NoValue, NoValue, c) EXCEPT
                             !.events = _raiseEvent(Events.WidgetFailed, [url |-> url])]
               /\ UNCHANGED _subscribers
    /\ UNCHANGED <<_channelNr, listeners>>

\* A callback whose failure branch does not call widget.destroy().
InitializeResponse_NoDestroy(c, response) ==
    /\ c \in DOMAIN channels
    /\ channels[c].phase = "awaiting"
    /\ LET url == channels[c].url IN
       IF response.isInitialized
       THEN LET subs == SubscribeAll(_subscribers, url, response.subscriptions,
                                     Len(response.subscriptions)) IN
            /\ Entries(subs) <= MaxSubscriptions
            /\ _widgets' = (url :> c) @@ _widgets
            /\ _subscribers' = subs
            /\ channels' = [channels EXCEPT ![c].phase = "initialized"]
            /\ last' = [Op("response", url, NoValue, NoValue, c) EXCEPT
                          !.ok = TRUE,
                          !.subscriptions = response.subscriptions,
                          !.events = _raiseEvent(Events.WidgetInitialized, [url |-> url])]
       ELSE /\ channels' = [channels EXCEPT ![c].phase = "failed"]
            /\ last' = [Op("response", url, NoValue, NoValue, c) EXCEPT
                          !.events = _raiseEvent(Events.WidgetFailed, [url |-> url])]
            /\ UNCHANGED <<_widgets, _subscribers>>
    /\ UNCHANGED <<_channelNr, listeners>>

\* The callback given to widget.initialize, run with the widget's response.
InitializeResponse(c, response) ==
    /\ c \in DOMAIN channels
    /\ channels[c].phase = "awaiting"
    /\ LET url == channels[c].url IN
       IF response.isInitialized
       THEN LET subs == SubscribeAll(_subscribers, url, response.subscriptions,
                                     Len(response.subscriptions)) IN
            /\ Entries(subs) <= MaxSubscriptions
            /\ _widgets' = (url :> c) @@ _widgets
            /\ _subscribers' = subs
            /\ channels' = [channels EXCEPT ![c].phase = "initialized"]
            /\ last' = [Op("response", url, NoValue, NoValue, c) EXCEPT
                          !.ok = TRUE,
                          !.subscriptions = response.subscriptions,
                          !.events = _raiseEvent(Events.WidgetInitialized, [url |-> url])]
       ELSE /\ channels' = [channels EXCEPT ![c] = destroy(@)]
            /\ last' = [Op("response", url, NoValue, NoValue, c) EXCEPT
                          !.events = _raiseEvent(Events.WidgetFailed, [url |-> url])]
            /\ UNCHANGED <<_widgets, _subscribers>>
    /\ UNCHANGED <<_channelNr, listeners>>

\* ---------------------------------------------------------------- local methods
\* A channel delivers the widget's calls once it is ready and until it is
\* destroyed.
Delivers(c) ==
    /\ Live(c)
    /\ channels[c].phase \in {"awaiting", "initialized"}

\* local.subscribe.method of the Interface created for the url.
LocalSubscribe(c, topic) ==
    /\ Delivers(c)
    /\ Entries(_subscribers) < MaxSubscriptions
    /\ _subscribers' = _subscribe(_subscribers, channels[c].url, topic)
    /\ last' = Op("subscribe", channels[c].url, topic, NoValue, NoChan)
    /\ UNCHANGED <<_channelNr, channels, _widgets, listeners>>

\* A publish method that also records the sender as a subscriber of the topic.
LocalPublish_Subscribing(c, topic, data) ==
    /\ Delivers(c)
    /\ Entries(_subscribers) < MaxSubscriptions
    /\ _subscribers' = _subscribe(_subscribers, channels[c].url, topic)
    /\ LET r == _publish(channels[c].url, topic, data) IN
       last' = [Op("publish", channels[c].url, topic, data, NoChan) EXCEPT
                  !.sends = r.sends, !.threw = r.threw]
    /\ UNCHANGED <<_channelNr, channels, _widgets, listeners>>

\* local.publish.method of the Interface created for the url.
LocalPublish(c, topic, data) ==
    /\ Delivers(c)
    /\ LET r == _publish(channels[c].url, topic, data) IN
       last' = [Op("publish", channels[c].url, topic, data, NoChan) EXCEPT
                  !.sends = r.sends, !.threw = r.threw]
    /\ UNCHANGED <<_channelNr, channels, _widgets, _subscribers, listeners>>

\* ---------------------------------------------------------------- removeWidget
\* The inner loop of removeWidget on one topic's array: from the last
\* element to the first, splice out the first match and stop.
RECURSIVE SpliceOne(_, _, _)
SpliceOne(subscribers, i, url) ==
    IF i = 0 THEN subscribers
    ELSE IF subscribers[i] = url
         THEN SubSeq(subscribers, 1, i - 1) \o SubSeq(subscribers, i + 1, Len(subscribers))
         ELSE SpliceOne(subscribers, i - 1, url)

\* removeWidget without the url in _widgets test around the splice loop.
removeWidget_Unguarded(url) ==
    /\ _subscribers' = [topic \in DOMAIN _subscribers |->
                          SpliceOne(_subscribers[topic], Len(_subscribers[topic]), url)]
    /\ IF url \in DOMAIN _widgets
       THEN /\ channels' = [channels EXCEPT ![_widgets[url]] = destroy(@)]
            /\ _widgets' = [u \in DOMAIN _widgets \ {url} |-> _widgets[u]]
            /\ last' = [Op("removeWidget", url, NoValue, NoValue, _widgets[url]) EXCEPT !.ok = TRUE]
       ELSE /\ last' = Op("removeWidget", url, NoValue, NoValue, NoChan)
            /\ UNCHANGED <<channels, _widgets>>
    /\ UNCHANGED <<_channelNr, listeners>>

\* removeWidget without the delete _widgets[url] statement.
removeWidget_NoDelete(url) ==
    IF url \in DOMAIN _widgets
    THEN /\ _subscribers' = [topic \in DOMAIN _subscribers |->
                               SpliceOne(_subscribers[topic], Len(_subscribers[topic]), url)]
         /\ channels' = [channels EXCEPT ![_widgets[url]] = destroy(@)]
         /\ last' = [Op("removeWidget", url, NoValue, NoValue, _widgets[url]) EXCEPT !.ok = TRUE]
         /\ UNCHANGED <<_channelNr, _widgets, listeners>>
    ELSE /\ last' = Op("removeWidget", url, NoValue, NoValue, NoChan)
         /\ UNCHANGED <<_channelNr, channels, _widgets, _subscribers, listeners>>

removeWidget(url) ==
    IF url \in DOMAIN _widgets
    THEN /\ _subscribers' = [topic \in DOMAIN _subscribers |->
                               SpliceOne(_subscribers[topic], Len(_subscribers[topic]), url)]
         /\ channels' = [channels EXCEPT ![_widgets[url]] = destroy(@)]
         /\ _widgets' = [u \in DOMAIN _widgets \ {url} |-> _widgets[u]]
         /\ last' = [Op("removeWidget", url, NoValue, NoValue, _widgets[url]) EXCEPT !.ok = TRUE]
         /\ UNCHANGED <<_channelNr, listeners>>
    ELSE /\ last' = Op("removeWidget", url, NoValue, NoValue, NoChan)
         /\ UNCHANGED <<_channelNr, channels, _widgets, _subscribers, listeners>>

\* ---------------------------------------------------------------- publish
publish(topic, data) ==
    /\ LET r == _publish(ManagerSender, topic, data) IN
       last' = [Op("publish", ManagerSender, topic, data, NoChan) EXCEPT
                  !.sends = r.sends, !.threw = r.threw]
    /\ UNCHANGED <<_channelNr, channels, _widgets, _subscribers, listeners>>

\* ---------------------------------------------------------------- broadcast
\* for (url in _widgets): the body's first evaluation calls
\* _widgets.hasOwnPropert, which is undefined, and throws a TypeError before
\* any send; with no key in _widgets the body never runs.
broadcast(data) ==
    /\ last' = [Op("broadcast", ManagerSender, "broadcast", data, NoChan) EXCEPT
                  !.threw = (DOMAIN _widgets # {})]
    /\ UNCHANGED <<_channelNr, channels, _widgets, _subscribers, listeners>>

\* ---------------------------------------------------------------- Next
Next ==
    \/ \E url \in Urls : addWidget(url) /\ UNCHANGED <<wvars, rvars>>
    \/ \E c \in DOMAIN channels : _initializeWidget(c) /\ UNCHANGED <<wvars, rvars>>
    \/ \E c \in DOMAIN channels, response \in Responses : InitializeResponse(c, response) /\ UNCHANGED <<wvars, rvars>>
    \/ \E c \in DOMAIN channels, topic \in Topics : LocalSubscribe(c, topic) /\ UNCHANGED <<wvars, rvars>>
    \/ \E c \in DOMAIN channels, topic \in Topics, data \in Data : LocalPublish(c, topic, data) /\ UNCHANGED <<wvars, rvars>>
    \/ \E url \in Urls : removeWidget(url) /\ UNCHANGED <<wvars, rvars>>
    \/ \E topic \in Topics, data \in Data : publish(topic, data) /\ UNCHANGED <<wvars, rvars>>
    \/ \E data \in Data : broadcast(data) /\ UNCHANGED <<wvars, rvars>>

Spec == Init /\ [][Next]_vars

\* The numbers a channel can have.
ChanIds == 0..(MaxChannels - 1)

\* The transport reports every new Interface ready, which runs the onReady
\* callback, and resolves every initialize call, which runs its callback.
TransportFairness ==
    \A c \in ChanIds :
        /\ WF_vars(_initializeWidget(c) /\ UNCHANGED <<wvars, rvars>>)
        /\ WF_vars(\E response \in Responses :
                       InitializeResponse(c, response) /\ UNCHANGED <<wvars, rvars>>)

\* The operations that create, resolve and remove widgets.  The others
\* (subscribe, publish, broadcast) write neither channels nor _widgets, and
\* no step of a handshake depends on what they write.
NextLifecycle ==
    \/ \E url \in Urls : addWidget(url) /\ UNCHANGED <<wvars, rvars>>
    \/ \E c \in DOMAIN channels : _initializeWidget(c) /\ UNCHANGED <<wvars, rvars>>
    \/ \E c \in DOMAIN channels, response \in Responses : InitializeResponse(c, response) /\ UNCHANGED <<wvars, rvars>>
    \/ \E url \in Urls : removeWidget(url) /\ UNCHANGED <<wvars, rvars>>

SpecFair == Init /\ [][NextLifecycle]_vars /\ TransportFairness

\* ================================================================ easyXDM.Widget

\* What the application does inside a callback it is given the wrapper in:
\* the topics it calls subscribe with, in order.
Scripts == SeqsUpTo(Topics, MaxScript)

\* The config objects a wrapper is constructed with.
Configs == [subscriptions : SeqsUpTo(Topics, MaxDeclared)]

\* Widget.subscribe for each topic of a script: one _widgetHost.subscribe
\* call each.
Forwarded(script) ==
    [i \in 1..Len(script) |-> [method |-> "subscribe", args |-> <<script[i]>>]]

\* A constructor that returns without calling config.initialize.
Widget_NoInitialize(cfg, script) ==
    /\ ~built
    /\ built' = TRUE
    /\ config' = cfg
    /\ _widgetHost' = [destroyed |-> FALSE, early |-> <<>>]
    /\ wlast' = WOp("new", <<>>)
    /\ UNCHANGED <<_incomingMessageHandler, runs>>

\* new easyXDM.Widget(config): creates _widgetHost, defines the methods and
\* ends by calling config.initialize(this, _widgetHost).
Widget(cfg, script) ==
    /\ ~built
    /\ built' = TRUE
    /\ config' = cfg
    /\ _widgetHost' = [destroyed |-> FALSE, early |-> script]
    /\ runs' = [runs EXCEPT !.initialize = @ + 1]
    /\ wlast' = [WOp("new", <<>>) EXCEPT !.calls = Forwarded(script)]
    /\ UNCHANGED _incomingMessageHandler

\* The wrapper answers remote calls once constructed and until unloaded.
Answers ==
    /\ built
    /\ ~_widgetHost.destroyed
    /\ runs.answered < MaxAnswered

\* local.initialize.method: calls config.initialized, then returns the
\* response built from config.subscriptions.
local_initialize(script) ==
    /\ Answers
    /\ runs' = [runs EXCEPT !.initialized = @ + 1, !.answered = @ + 1]
    /\ wlast' = [WOp("initialize", <<>>) EXCEPT
                   !.calls = Forwarded(script),
                   !.response = [isInitialized |-> TRUE,
                                 subscriptions |-> config.subscriptions]]
    /\ UNCHANGED <<built, config, _incomingMessageHandler, _widgetHost>>

\* local.send.method: calls _incomingMessageHandler, which is undefined
\* until a handler is registered; calling undefined throws a TypeError.
local_send(url, topic, data) ==
    /\ Answers
    /\ runs' = [runs EXCEPT !.answered = @ + 1]
    /\ wlast' = IF _incomingMessageHandler = NoHandler
                THEN [WOp("send", <<url, topic, data>>) EXCEPT !.threw = TRUE]
                ELSE [WOp("send", <<url, topic, data>>) EXCEPT
                        !.handled = <<[handler |-> _incomingMessageHandler,
                                       args |-> <<url, topic, data>>]>>]
    /\ UNCHANGED <<built, config, _incomingMessageHandler, _widgetHost>>

\* Widget.subscribe, called by the application outside the callbacks.
Widget_subscribe(topic) ==
    /\ built
    /\ ~_widgetHost.destroyed
    /\ wlast' = [WOp("subscribe", <<topic>>) EXCEPT !.calls = Forwarded(<<topic>>)]
    /\ UNCHANGED <<built, config, _incomingMessageHandler, _widgetHost, runs>>

\* Widget.publish.
Widget_publish(topic, data) ==
    /\ built
    /\ ~_widgetHost.destroyed
    /\ wlast' = [WOp("publish", <<topic, data>>) EXCEPT
                   !.calls = <<[method |-> "publish", args |-> <<topic, data>>]>>]
    /\ UNCHANGED <<built, config, _incomingMessageHandler, _widgetHost, runs>>

\* A registration that keeps a handler registered earlier.
registerMessageHandler_KeepFirst(fn) ==
    /\ built
    /\ runs.registered < MaxRegistered
    /\ _incomingMessageHandler' =
           IF _incomingMessageHandler = NoHandler THEN fn ELSE _incomingMessageHandler
    /\ runs' = [runs EXCEPT !.registered = @ + 1]
    /\ wlast' = WOp("registerMessageHandler", <<fn>>)
    /\ UNCHANGED <<built, config, _widgetHost>>

\* Widget.registerMessageHandler.
registerMessageHandler(fn) ==
    /\ built
    /\ runs.registered < MaxRegistered
    /\ _incomingMessageHandler' = fn
    /\ runs' = [runs EXCEPT !.registered = @ + 1]
    /\ wlast' = WOp("registerMessageHandler", <<fn>>)
    /\ UNCHANGED <<built, config, _widgetHost>>

\* window.onunload: _widgetHost.destroy().
onunload ==
    /\ built
    /\ ~_widgetHost.destroyed
    /\ _widgetHost' = [_widgetHost EXCEPT !.destroyed = TRUE]
    /\ wlast' = WOp("onunload", <<>>)
    /\ UNCHANGED <<built, config, _incomingMessageHandler, runs>>

NextWidget ==
    \/ \E cfg \in Configs, script \in Scripts : Widget(cfg, script) /\ UNCHANGED <<mvars, rvars>>
    \/ \E script \in Scripts : local_initialize(script) /\ UNCHANGED <<mvars, rvars>>
    \/ \E url \in Urls \cup {ManagerSender}, topic \in Topics, data \in Data :
           local_send(url, topic, data) /\ UNCHANGED <<mvars, rvars>>
    \/ \E topic \in Topics : Widget_subscribe(topic) /\ UNCHANGED <<mvars, rvars>>
    \/ \E topic \in Topics, data \in Data : Widget_publish(topic, data) /\ UNCHANGED <<mvars, rvars>>
    \/ \E fn \in Handlers : registerMessageHandler(fn) /\ UNCHANGED <<mvars, rvars>>
    \/ onunload /\ UNCHANGED <<mvars, rvars>>

SpecWidget == Init /\ [][NextWidget]_vars

\* ================================================================ relay

\* The widgets of the relay scenario and the data of their publish calls,
\* one value per call.
RelayUrls == <<"a", "b", "r">>
Messages == <<"m1", "m2", "m3", "m4", "m5", "m6">>

\* The manager after addWidget("a"), addWidget("b"), addWidget("r") and
\* their handshakes, in which b and r declared the topic t1; nothing is in
\* flight.
RelayInit ==
    /\ _channelNr = Len(RelayUrls)
    /\ channels = [c \in 0..(Len(RelayUrls) - 1) |->
                     [url |-> RelayUrls[c + 1], phase |-> "initialized", destroys |-> 0]]
    /\ _widgets = [url \in Range(RelayUrls) |->
                     CHOOSE c \in 0..(Len(RelayUrls) - 1) : RelayUrls[c + 1] = url]
    /\ _subscribers = ("t1" :> <<"b", "r">>)
    /\ listeners \in ListenerConfigs
    /\ last = [Op("response", "r", NoValue, NoValue, Len(RelayUrls) - 1) EXCEPT
                 !.ok = TRUE,
                 !.subscriptions = <<"t1">>,
                 !.events = _raiseEvent(Events.WidgetInitialized, [url |-> "r"])]
    /\ built = FALSE
    /\ config = [subscriptions |-> <<>>]
    /\ _incomingMessageHandler = NoHandler
    /\ _widgetHost = [destroyed |-> FALSE, early |-> <<>>]
    /\ runs = [initialize |-> 0, initialized |-> 0, answered |-> 0, registered |-> 0]
    /\ wlast = WOp("none", <<>>)
    /\ issued = <<>>
    /\ toManager = [c \in 0..(Len(RelayUrls) - 1) |-> <<>>]
    /\ toWidget = [c \in 0..(Len(RelayUrls) - 1) |-> <<>>]
    /\ received = [c \in 0..(Len(RelayUrls) - 1) |-> <<>>]

\* The widget on channel c calls publish: _widgetHost.publish(topic, data)
\* puts the call on its channel.
WidgetPublishes(c, topic) ==
    /\ Delivers(c)
    /\ Len(issued) < MaxIssued
    /\ LET data == Messages[Len(issued) + 1] IN
       /\ issued' = Append(issued, [chan |-> c, topic |-> topic, data |-> data])
       /\ toManager' = [toManager EXCEPT ![c] = Append(@, [topic |-> topic, data |-> data])]
    /\ UNCHANGED <<mvars, wvars, toWidget, received>>

\* The send calls of one publish that go to channel c, in the order made.
SendsTo(sends, c) ==
    LET Mine(send) == send.chan = c
        mine == SelectSeq(sends, Mine)
    IN [i \in 1..Len(mine) |-> mine[i].args]

\* A channel that hands the manager the newest pending call first.
ManagerReceives_NewestFirst(c) ==
    /\ toManager[c] # <<>>
    /\ LocalPublish(c, toManager[c][Len(toManager[c])].topic,
                       toManager[c][Len(toManager[c])].data)
    /\ toManager' = [toManager EXCEPT ![c] = SubSeq(@, 1, Len(@) - 1)]
    /\ toWidget' = [d \in DOMAIN toWidget |-> toWidget[d] \o SendsTo(last'.sends, d)]
    /\ UNCHANGED <<wvars, issued, received>>

\* Channel c delivers the widget's oldest pending publish call: the local
\* publish method runs and each send it makes is put on the subscriber's
\* channel.
ManagerReceives(c) ==
    /\ toManager[c] # <<>>
    /\ LocalPublish(c, Head(toManager[c]).topic, Head(toManager[c]).data)
    /\ toManager' = [toManager EXCEPT ![c] = Tail(@)]
    /\ toWidget' = [d \in DOMAIN toWidget |-> toWidget[d] \o SendsTo(last'.sends, d)]
    /\ UNCHANGED <<wvars, issued, received>>

\* Channel c delivers the manager's oldest pending send call to the widget.
WidgetReceives(c) ==
    /\ toWidget[c] # <<>>
    /\ received' = [received EXCEPT ![c] = Append(@, Head(toWidget[c]))]
    /\ toWidget' = [toWidget EXCEPT ![c] = Tail(@)]
    /\ UNCHANGED <<mvars, wvars, issued, toManager>>

NextRelay ==
    \/ \E c \in DOMAIN channels, topic \in Topics : WidgetPublishes(c, topic)
    \/ \E c \in DOMAIN channels : ManagerReceives(c)
    \/ \E c \in DOMAIN channels : WidgetReceives(c)

SpecRelay == RelayInit /\ [][NextRelay]_vars

\* ================================================================ claims

\* The urls in a topic's subscriber array (none when the topic has no array).
SubscribersOf(topic) ==
    IF topic \in DOMAIN _subscribers THEN Range(_subscribers[topic]) ELSE {}

\* The url has a channel whose handshake is not resolved yet.
InFlight(url) ==
    \E c \in DOMAIN channels :
        channels[c].url = url /\ channels[c].phase \in {"setup", "awaiting"}

\* C1: one publish(T, data) by sender S invokes send(S, T, data) on the
\* channel of every url in SubscriptionTable[T] other than S, and on no other
\* channel.  (publish changes neither table, so both are read after the call.)
C1_PublishReachesExactlyOtherSubscribers ==
    last.op = "publish" =>
        LET targets == SubscribersOf(last.topic) \ {last.url}
            call(u) == [chan |-> _widgets[u], args |-> <<last.url, last.topic, last.data>>]
        IN /\ \A u \in targets :
                  /\ u \in DOMAIN _widgets
                  /\ \E i \in 1..Len(last.sends) : last.sends[i] = call(u)
           /\ \A i \in 1..Len(last.sends) :
                  \E u \in targets : u \in DOMAIN _widgets /\ last.sends[i] = call(u)

\* C2: every url in any topic's subscriber array is a key of _widgets (an
\* active peer); a peer awaiting its handshake, failed or removed is in none.
C2_SubscribersAreActive ==
    \A topic \in DOMAIN _subscribers : Range(_subscribers[topic]) \subseteq DOMAIN _widgets

\* C3: right after P's handshake succeeds declaring T, P is a subscriber of
\* T; right after removeWidget(P) on an active P, P is a subscriber of no
\* topic.
C3_SubscribedAfterHandshakeUnsubscribedAfterRemove ==
    /\ (last.op = "response" /\ last.ok) =>
           \A topic \in Range(last.subscriptions) : last.url \in SubscribersOf(topic)
    /\ (last.op = "removeWidget" /\ last.ok) =>
           \A topic \in Topics : last.url \notin SubscribersOf(topic)

\* C4: addWidget(url) throws, creates no channel and changes no state,
\* whenever the url has an active record or one in flight.
C4_AddWidgetRejectsActiveOrInFlight ==
    [][\A url \in Urls :
          (addWidget(url) /\ (url \in DOMAIN _widgets \/ InFlight(url))) =>
              /\ last'.threw
              /\ UNCHANGED <<_channelNr, channels, _widgets, _subscribers>>]_vars

\* C5: a url never has two channels that are both un-released, and every
\* un-released channel whose handshake succeeded is the one _widgets holds
\* for its url.
C5_OneLiveChannelPerUrl ==
    /\ \A c, d \in DOMAIN channels :
           (c # d /\ Live(c) /\ Live(d)) => channels[c].url # channels[d].url
    /\ \A c \in DOMAIN channels :
           (Live(c) /\ channels[c].phase = "initialized") =>
               (channels[c].url \in DOMAIN _widgets /\ _widgets[channels[c].url] = c)

\* C6: right after an initialize call resolves with failure, its channel is
\* released, the url is no key of _widgets (so removeWidget(url) does
\* nothing) and the url is in no subscriber array.
C6_FailedHandshakeLeavesNoTrace ==
    (last.op = "response" /\ ~last.ok) =>
        /\ channels[last.chan].destroys >= 1
        /\ last.url \notin DOMAIN _widgets
        /\ \A topic \in Topics : last.url \notin SubscribersOf(topic)

\* C7: an addWidget(url) that directly follows the failure of a handshake
\* of url, or a removeWidget(url) that destroyed its active record, does not
\* throw and creates a new channel on which a handshake starts.
C7_AddWidgetAcceptedAfterDiscard ==
    [][\A url \in Urls :
          (/\ addWidget(url)
           /\ last.url = url
           /\ \/ (last.op = "response" /\ ~last.ok)
              \/ (last.op = "removeWidget" /\ last.ok)) =>
              /\ ~last'.threw
              /\ _channelNr' = _channelNr + 1
              /\ channels'[_channelNr].url = url
              /\ channels'[_channelNr].phase = "setup"]_vars

\* C8: a handshake resolution invokes exactly one listener of the host,
\* once: the widgetinitialized one on success, the widgetfailed one on
\* failure, with {url}; no other operation invokes a listener.
C8_OneNotificationPerResolution ==
    /\ (last.op = "response" /\ last.ok /\ Events.WidgetInitialized \in listeners) =>
           last.events = <<[listener |-> Events.WidgetInitialized, arg |-> [url |-> last.url]]>>
    /\ (last.op = "response" /\ ~last.ok /\ Events.WidgetFailed \in listeners) =>
           last.events = <<[listener |-> Events.WidgetFailed, arg |-> [url |-> last.url]]>>
    /\ last.op # "response" => last.events = <<>>

\* C9: no url occurs twice in a topic's subscriber array, and one publish
\* invokes send at most once on each channel.
C9_SetSemantics ==
    /\ \A topic \in DOMAIN _subscribers :
           \A i, j \in 1..Len(_subscribers[topic]) :
               i # j => _subscribers[topic][i] # _subscribers[topic][j]
    /\ last.op = "publish" =>
           \A i, j \in 1..Len(last.sends) :
               i # j => last.sends[i].chan # last.sends[j].chan

\* C10: broadcast(data) does not throw and invokes send exactly once on the
\* channel of every key of _widgets, and on no other channel.
C10_BroadcastReachesEveryActivePeer ==
    last.op = "broadcast" =>
        /\ ~last.threw
        /\ {last.sends[i].chan : i \in 1..Len(last.sends)} = {_widgets[u] : u \in DOMAIN _widgets}
        /\ Len(last.sends) = Cardinality(DOMAIN _widgets)

\* C11: removeWidget(url) for a url that is no key of _widgets (never added,
\* awaiting its handshake, failed or removed) does not throw and leaves
\* _widgets, every subscriber array and every channel as they were.
C11_RemoveInactiveIsNoOp ==
    [][\A url \in Urls :
          (last'.op = "removeWidget" /\ last'.url = url /\ url \notin DOMAIN _widgets) =>
              /\ ~last'.threw
              /\ UNCHANGED <<_channelNr, channels, _widgets, _subscribers>>]_vars

\* removeWidget just ran on a url that is awaiting its handshake and is
\* already listed as a subscriber.
C11_Witness ==
    /\ last.op = "removeWidget" /\ ~last.ok
    /\ \E c \in DOMAIN channels : channels[c].url = last.url /\ channels[c].phase = "awaiting"
    /\ \E topic \in Topics : last.url \in SubscribersOf(topic)

\* The number of times the url occurs in the topic's subscriber array.
Occurrences(url, topic) ==
    IF topic \in DOMAIN _subscribers
    THEN Cardinality({i \in 1..Len(_subscribers[topic]) : _subscribers[topic][i] = url})
    ELSE 0

\* C13 as stated: while a url stays registered on the same channel, the set
\* of topics it is subscribed to does not grow.
C13_SubscriptionsFixedAtHandshake ==
    [][\A url \in Urls, topic \in Topics :
          (/\ url \in DOMAIN _widgets
           /\ url \in DOMAIN _widgets'
           /\ _widgets'[url] = _widgets[url]
           /\ url \in SubscribersOf(topic)') => url \in SubscribersOf(topic)]_vars

\* C13 as amended: a url becomes a subscriber of a topic only by a
\* subscribe(topic) call arriving over one of its channels, at any time, or
\* by a successful handshake of that url declaring the topic.
C13_GrowsOnlyBySubscribeOrHandshake ==
    [][\A url \in Urls, topic \in Topics :
          (url \in SubscribersOf(topic)' /\ url \notin SubscribersOf(topic)) =>
              /\ last'.url = url
              /\ \/ last'.op = "subscribe" /\ last'.topic = topic
                 \/ /\ last'.op = "response" /\ last'.ok
                    /\ topic \in Range(last'.subscriptions)]_vars

\* An active peer's subscribe call just made it a subscriber of a topic it
\* was not subscribed to.
C13_Witness ==
    /\ last.op = "subscribe"
    /\ last.url \in DOMAIN _widgets
    /\ Occurrences(last.url, last.topic) = 1

\* C18: destroy is invoked at most once on any channel.
C18_DestroyAtMostOnce ==
    \A c \in DOMAIN channels : channels[c].destroys <= 1

\* removeWidget was called again on a url whose only channel is destroyed.
C18_Witness ==
    /\ last.op = "removeWidget" /\ ~last.ok
    /\ \E c \in DOMAIN channels : channels[c].url = last.url
    /\ \A c \in DOMAIN channels : channels[c].url = last.url => channels[c].destroys = 1

\* C19: _widgets never holds a destroyed channel, and neither send nor
\* initialize is invoked on a destroyed channel.
C19_NoUseAfterRelease ==
    /\ \A url \in DOMAIN _widgets : Live(_widgets[url])
    /\ \A i \in 1..Len(last.sends) : Live(last.sends[i].chan)
    /\ last.op = "initialize" => Live(last.chan)

\* A publish made a send while another channel was already destroyed.
C19_Witness ==
    /\ last.op = "publish"
    /\ Len(last.sends) > 0
    /\ \E c \in DOMAIN channels : channels[c].destroys > 0

\* The steps a channel's record can take: created awaiting its handshake,
\* then active with the url registered on it or released without ever being
\* registered, and from active to released.
RecordStep(c) ==
    IF c \notin DOMAIN channels
    THEN channels'[c].phase = "setup"
    ELSE LET from == channels[c].phase
             to == channels'[c].phase
         IN \/ to = from /\ channels'[c] = channels[c]
            \/ from = "setup" /\ to = "awaiting" /\ Live(c)'
            \/ /\ from = "awaiting" /\ to = "initialized" /\ Live(c)'
               /\ channels[c].url \in DOMAIN _widgets'
               /\ _widgets'[channels[c].url] = c
            \/ /\ from = "awaiting" /\ to = "destroyed" /\ ~Live(c)'
               /\ \A url \in DOMAIN _widgets' : _widgets'[url] # c
            \/ /\ from = "initialized" /\ to = "destroyed" /\ ~Live(c)'
               /\ last'.op = "removeWidget"
               /\ \A url \in DOMAIN _widgets' : _widgets'[url] # c

\* C17: with a transport that reports readiness and resolves every
\* initialize call, every channel addWidget created leaves the awaiting
\* states, active or released, and a record only ever takes the steps of
\* RecordStep.
C17_HandshakeResolves ==
    /\ \A c \in ChanIds :
           (c \in DOMAIN channels) ~>
               (c \in DOMAIN channels /\ channels[c].phase \in {"initialized", "destroyed"})
    /\ [][\A c \in DOMAIN channels' : RecordStep(c)]_vars

\* Both outcomes of a handshake have happened.
C17_Witness ==
    \E c, d \in DOMAIN channels :
        /\ channels[c].phase = "initialized" /\ Live(c)
        /\ channels[d].phase = "destroyed" /\ \A url \in DOMAIN _widgets : _widgets[url] # d

\* ---------------------------------------------------------------- wrapper

\* C12: every topic the application subscribed to inside its initialize
\* callback is in the subscriptions of the response the wrapper returns to
\* the manager's initialize call.
C12_EarlySubscriptionsReported ==
    wlast.op = "initialize" =>
        \A i \in 1..Len(_widgetHost.early) :
            _widgetHost.early[i] \in Range(wlast.response.subscriptions)

\* C14: a send arriving at a wrapper on which registerMessageHandler was
\* never called does not raise.
C14_SendWithoutHandlerIsDropped ==
    (wlast.op = "send" /\ runs.registered = 0) => ~wlast.threw

\* C15: config.initialize runs exactly once, at construction, before the
\* wrapper answers any remote call; config.initialized runs only when the
\* initialize remote call arrives, once per call and after
\* config.initialize, and the response to that call is positive.
C15_CallbackOrder ==
    [][/\ (runs'.initialize # runs.initialize) <=> (~built /\ built')
       /\ runs'.initialize <= 1
       /\ built' => runs'.initialize = 1
       /\ runs'.answered # runs.answered => built /\ runs.initialize = 1
       /\ runs'.initialized # runs.initialized =>
              /\ wlast'.op = "initialize"
              /\ runs'.answered = runs.answered + 1
              /\ runs'.initialized = runs.initialized + 1
              /\ runs.initialize = 1
       /\ (runs'.answered # runs.answered /\ wlast'.op = "initialize") =>
              /\ runs'.initialized = runs.initialized + 1
              /\ wlast'.response.isInitialized = TRUE
              /\ wlast'.response.subscriptions \in Seq(Topics)
      ]_vars

\* The wrapper answered the manager's initialize call.
C15_Witness ==
    /\ wlast.op = "initialize"
    /\ runs.initialize = 1
    /\ runs.initialized = 1
    /\ wlast.response.isInitialized = TRUE

\* C16: the registered handler is the one of the latest
\* registerMessageHandler call, and a send arriving after a registration is
\* dispatched exactly once, with its three arguments, to that handler.
C16_LastRegistrationWins ==
    [][/\ runs'.registered # runs.registered =>
              /\ wlast'.op = "registerMessageHandler"
              /\ _incomingMessageHandler' = wlast'.args[1]
       /\ runs'.registered = runs.registered =>
              _incomingMessageHandler' = _incomingMessageHandler
       /\ (runs'.answered # runs.answered /\ wlast'.op = "send"
               /\ runs.registered > 0) =>
              /\ ~wlast'.threw
              /\ wlast'.handled = <<[handler |-> _incomingMessageHandler,
                                     args |-> wlast'.args]>>
      ]_vars

\* A send was dispatched after two registrations.
C16_Witness ==
    /\ wlast.op = "send"
    /\ runs.registered = 2
    /\ Len(wlast.handled) = 1
    /\ wlast.handled[1].handler = _incomingMessageHandler

\* ---------------------------------------------------------------- relay

\* The publish calls the widget on channel s issued, in order.
IssuedBy(s) ==
    LET Mine(call) == call.chan = s IN SelectSeq(issued, Mine)

\* The sends from the widget on channel s that the manager made to the
\* widget on channel r, arrived or still on the channel, in order.
RelayedTo(r, s) ==
    LET FromS(args) == args[1] = channels[s].url
    IN SelectSeq(received[r] \o toWidget[r], FromS)

\* C20: what a subscriber receives from one sender arrives in the order the
\* sender issued it: the sends made to r for s are, in order, the publish
\* calls of s the manager has relayed on topics r subscribes to, and the
\* ones that arrived are the first of them.
C20_RelayPreservesSenderOrder ==
    \A r, s \in DOMAIN channels :
        r # s =>
            LET Wanted(call) ==
                    /\ call.topic \in DOMAIN _subscribers
                    /\ channels[r].url \in Range(_subscribers[call.topic])
                mine == IssuedBy(s)
                relayed == SubSeq(mine, 1, Len(mine) - Len(toManager[s]))
                expected == SelectSeq(relayed, Wanted)
                FromS(args) == args[1] = channels[s].url
                arrived == SelectSeq(received[r], FromS)
            IN /\ RelayedTo(r, s) =
                      [i \in 1..Len(expected) |->
                          <<channels[s].url, expected[i].topic, expected[i].data>>]
               /\ Len(arrived) <= Len(RelayedTo(r, s))
               /\ arrived = SubSeq(RelayedTo(r, s), 1, Len(arrived))

\* The place of the publish call with the given data in the order of issue.
IssuedAt(data) ==
    CHOOSE i \in 1..Len(issued) : issued[i].data = data

\* One widget received two publishes of one sender in the order of issue,
\* and publishes of two different senders both in the order of issue and
\* against it.
C20_Witness ==
    \E r \in DOMAIN received :
        /\ \E i, j \in 1..Len(received[r]) :
               /\ i < j
               /\ received[r][i][1] = received[r][j][1]
               /\ IssuedAt(received[r][i][3]) < IssuedAt(received[r][j][3])
        /\ \E i, j \in 1..Len(received[r]) :
               /\ i < j
               /\ received[r][i][1] # received[r][j][1]
               /\ IssuedAt(received[r][i][3]) < IssuedAt(received[r][j][3])
        /\ \E i, j \in 1..Len(received[r]) :
               /\ i < j
               /\ received[r][i][1] # received[r][j][1]
               /\ IssuedAt(received[r][i][3]) > IssuedAt(received[r][j][3])

====
